---- MODULE Spec2Model ----
(***************************************************************************)
(* Model of packages/ripple-jsx/src/index.js: the JSX runtime that turns   *)
(* jsx/jsxs/jsxDEV/Fragment descriptors into closures which, when the host *)
(* invokes them, build DOM nodes and report a span to the active block.    *)
(***************************************************************************)
EXTENDS Integers, Sequences, FiniteSets, TLC

VARIABLES
  pc,            \* position of the driver: which call ran last
  input,         \* argument of the last pure call (children value or props)
  output,        \* its result
  type,          \* `type` argument of the last jsx/jsxs/jsxDEV call
  props,         \* `props` argument of the last jsx/jsxs/jsxDEV/Fragment call
  closure,       \* the closure that call returned
  blockArg,      \* `block` argument the host passed to the last invocation
  dom,           \* the document: node id -> node
  blocks,        \* the host's blocks: block id -> span `s`
  active_block,  \* the host's `active_block` binding
  wprops,        \* `wrapperProps` argument the host passed to the last invocation
  calls,         \* host primitives and assign_nodes calls of the last invocation
  invokes        \* number of closure invocations so far

vars == <<pc, input, output, type, props, closure, blockArg, wprops, dom, blocks, active_block, calls, invokes>>

----------------------------------------------------------------------------
(* JavaScript values.  Every value is a record of the same shape:          *)
(*   k  typeof-like kind, f  which function it is, s  characters,          *)
(*   n  number / boolean / node id, c  array items, p  captured props.     *)

Val(k, f, s, n, c, p) == [k |-> k, f |-> f, s |-> s, n |-> n, c |-> c, p |-> p]
Null      == Val("null", "", <<>>, 0, <<>>, <<>>)
Undefined == Val("undefined", "", <<>>, 0, <<>>, <<>>)
False     == Val("boolean", "", <<>>, 0, <<>>, <<>>)
True      == Val("boolean", "", <<>>, 1, <<>>, <<>>)
Str(s)    == Val("string", "", s, 0, <<>>, <<>>)
Num(n)    == Val("number", "", <<>>, n, <<>>, <<>>)
Arr(c)    == Val("array", "", <<>>, 0, c, <<>>)
NodeRef(id) == Val("node", "", <<>>, id, <<>>, <<>>)
Handler(name) == Val("function", "handler", name, 0, <<>>, <<>>)

IsArray(v) == v.k = "array"

----------------------------------------------------------------------------
(* flattenChildren, index.js 65-82 *)

\* children === null || children === undefined || children === false
IsDropped(child) == child.k = "null" \/ child.k = "undefined" \/ child = False

RECURSIVE flattenChildren(_)
RECURSIVE flattenLoop(_, _, _)

\* the for-of loop of flattenChildren: items[i..] still to visit, `result` so far
flattenLoop(items, i, result) ==
  IF i > Len(items) THEN result
  ELSE LET child == items[i] IN
       IF IsDropped(child) THEN flattenLoop(items, i + 1, result)
       ELSE IF IsArray(child)
            THEN flattenLoop(items, i + 1, result \o flattenChildren(child))
            ELSE flattenLoop(items, i + 1, Append(result, child))

\* a faulty flattenChildren that filters one level only and splices no nested array
flattenChildren_shallow(children) ==
  IF ~IsArray(children)
  THEN IF IsDropped(children) THEN <<>> ELSE <<children>>
  ELSE SelectSeq(children.c, LAMBDA x : ~IsDropped(x))

\* a faulty flattenChildren that filters every boolean inside arrays
flattenChildren_dropsTrue(children) ==
  IF ~IsArray(children)
  THEN IF IsDropped(children) THEN <<>> ELSE <<children>>
  ELSE flattenLoop(SelectSeq(children.c, LAMBDA x : x # True), 1, <<>>)

flattenChildren(children) ==
  IF ~IsArray(children)
  THEN IF IsDropped(children) THEN <<>> ELSE <<children>>
  ELSE flattenLoop(children.c, 1, <<>>)

----------------------------------------------------------------------------
(* Strings are sequences of one-character strings, so that slice, startsWith, *)
(* toLowerCase and the /^on([A-Z])/ replace are computed, not assumed.        *)

UpperCase == <<"A","B","C","D","E","F","G","H","I","J","K","L","M",
               "N","O","P","Q","R","S","T","U","V","W","X","Y","Z">>
LowerCase == <<"a","b","c","d","e","f","g","h","i","j","k","l","m",
               "n","o","p","q","r","s","t","u","v","w","x","y","z">>

\* [A-Z]
IsUpper(ch) == \E i \in DOMAIN UpperCase : UpperCase[i] = ch

\* one character of String.prototype.toLowerCase
LowerChar(ch) ==
  IF IsUpper(ch) THEN LowerCase[CHOOSE i \in DOMAIN UpperCase : UpperCase[i] = ch] ELSE ch

\* String.prototype.toLowerCase
toLowerCase(s) == <<>> \o [i \in 1..Len(s) |-> LowerChar(s[i])]

\* String.prototype.slice(from) with a 0-based start
slice(s, from) == IF from >= Len(s) THEN <<>> ELSE SubSeq(s, from + 1, Len(s))

\* key.startsWith('on')
startsWithOn(key) == Len(key) >= 2 /\ key[1] = "o" /\ key[2] = "n"

\* the regular expression /^on[A-Z]/
MatchesOnUpper(key) == Len(key) >= 3 /\ startsWithOn(key) /\ IsUpper(key[3])

k_children        == <<"c","h","i","l","d","r","e","n">>
k_className       == <<"c","l","a","s","s","N","a","m","e">>
k_htmlFor         == <<"h","t","m","l","F","o","r">>
k_tabIndex        == <<"t","a","b","I","n","d","e","x">>
k_readOnly        == <<"r","e","a","d","O","n","l","y">>
k_autoComplete    == <<"a","u","t","o","C","o","m","p","l","e","t","e">>
k_autoFocus       == <<"a","u","t","o","F","o","c","u","s">>
k_contentEditable == <<"c","o","n","t","e","n","t","E","d","i","t","a","b","l","e">>
k_noValidate      == <<"n","o","V","a","l","i","d","a","t","e">>

\* the Map of JSX attribute names to HTML attribute names, as its entries
MAPPED_ATTRIBUTES ==
  << <<k_className,       <<"c","l","a","s","s">> >>,
     <<k_htmlFor,         <<"f","o","r">> >>,
     <<k_tabIndex,        <<"t","a","b","i","n","d","e","x">> >>,
     <<k_readOnly,        <<"r","e","a","d","o","n","l","y">> >>,
     <<k_autoComplete,    <<"a","u","t","o","c","o","m","p","l","e","t","e">> >>,
     <<k_autoFocus,       <<"a","u","t","o","f","o","c","u","s">> >>,
     <<k_contentEditable, <<"c","o","n","t","e","n","t","e","d","i","t","a","b","l","e">> >>,
     <<k_noValidate,      <<"n","o","v","a","l","i","d","a","t","e">> >> >>

\* key.replace(/^on([A-Z])/, (_, letter) => 'on' + letter.toLowerCase())
replaceOnUpper(key) ==
  IF MatchesOnUpper(key) THEN <<"o", "n", LowerChar(key[3])>> \o slice(key, 3) ELSE key

jsxKeyToHtml(key) ==
  IF \E i \in DOMAIN MAPPED_ATTRIBUTES : MAPPED_ATTRIBUTES[i][1] = key
  THEN MAPPED_ATTRIBUTES[CHOOSE i \in DOMAIN MAPPED_ATTRIBUTES : MAPPED_ATTRIBUTES[i][1] = key][2]
  ELSE replaceOnUpper(key)

----------------------------------------------------------------------------
(* Plain objects are their entries <<key, value>> in insertion order. *)

ObjHas(o, key) == \E i \in DOMAIN o : o[i][1] = key

\* o[key], undefined when absent
ObjGet(o, key) ==
  IF ObjHas(o, key) THEN o[CHOOSE i \in DOMAIN o : o[i][1] = key][2] ELSE Undefined

\* o[key] = value: an existing key keeps its place, a new one goes last
ObjSet(o, key, value) ==
  IF ObjHas(o, key)
  THEN <<>> \o [i \in DOMAIN o |-> IF o[i][1] = key THEN <<key, value>> ELSE o[i]]
  ELSE Append(o, <<key, value>>)

RECURSIVE ObjAssign(_, _, _)
\* copies b's entries from the i-th on into a
ObjAssign(a, b, i) ==
  IF i > Len(b) THEN a ELSE ObjAssign(ObjSet(a, b[i][1], b[i][2]), b, i + 1)

\* { ...a, ...b }
ObjSpread(a, b) == ObjAssign(a, b, 1)

\* const { [key]: _, ...rest } = o
ObjRest(o, key) == SelectSeq(o, LAMBDA e : e[1] # key)

----------------------------------------------------------------------------
(* createChildrenComponent 133-140 and processProps 147-171 *)

\* the `children(anchor, props, block)` closure over flattenedChildren
createChildrenComponent(rawChildren) ==
  Val("function", "children", <<>>, 0, flattenChildren(rawChildren), <<>>)

\* an event test that asks for the capital letter after `on`
IsEventEntry_onUpper(key, value) == MatchesOnUpper(key) /\ value.k = "function"

\* key.startsWith('on') && typeof value === 'function'
IsEventEntry(key, value) == startsWithOn(key) /\ value.k = "function"

\* an event name that lower-cases only the first character after `on`
eventNameOf_firstOnly(key) ==
  IF Len(key) >= 3 THEN <<LowerChar(key[3])>> \o slice(key, 3) ELSE slice(key, 2)

\* key.slice(2).toLowerCase()
eventNameOf(key) == toLowerCase(slice(key, 2))

RECURSIVE processLoop(_, _, _, _)
\* the for-of loop over Object.entries(otherProps)
processLoop(entries, i, attributes, events) ==
  IF i > Len(entries) THEN [attributes |-> attributes, events |-> events]
  ELSE LET key   == entries[i][1]
           value == entries[i][2]
       IN IF IsEventEntry(key, value)
          THEN processLoop(entries, i + 1, attributes, ObjSet(events, eventNameOf(key), value))
          ELSE processLoop(entries, i + 1, ObjSet(attributes, jsxKeyToHtml(key), value), events)

processProps(p) ==
  LET given    == ObjGet(p, k_children)
      children == IF given = Undefined THEN Arr(<<>>) ELSE given
      split    == processLoop(ObjRest(p, k_children), 1, <<>>, <<>>)
  IN [attributes |-> split.attributes,
      events     |-> split.events,
      children   |-> createChildrenComponent(children)]

----------------------------------------------------------------------------
(* The document.  A node id is its index in `dom`; 0 stands for null.  The  *)
(* render state threaded through one invocation is                          *)
(*   [dom, blocks, active, calls]                                           *)
(* where `calls` records the host primitives and assign_nodes calls made.   *)

NoNode == 0

ElementNode(tag, ns) ==
  [nodeType |-> 1, tag |-> tag, ns |-> ns, data |-> <<>>, t |-> FALSE,
   attrs |-> <<>>, listeners |-> <<>>, childNodes |-> <<>>]

\* a text node; `t` tells whether the `__t` property was set on it
TextNode(data, t) ==
  [nodeType |-> 3, tag |-> <<>>, ns |-> "", data |-> data, t |-> t,
   attrs |-> <<>>, listeners |-> <<>>, childNodes |-> <<>>]

\* the state with one more node, whose id is Len(dom) afterwards
AddNode(st, node) == [st EXCEPT !.dom = Append(st.dom, node)]
LastId(st) == Len(st.dom)

ParentOf(d, id) ==
  IF \E q \in DOMAIN d : \E j \in DOMAIN d[q].childNodes : d[q].childNodes[j] = id
  THEN CHOOSE q \in DOMAIN d : \E j \in DOMAIN d[q].childNodes : d[q].childNodes[j] = id
  ELSE NoNode

\* the node leaves its parent, as every DOM insertion does first
Detach(d, id) ==
  <<>> \o [q \in DOMAIN d |->
            [d[q] EXCEPT !.childNodes = SelectSeq(d[q].childNodes, LAMBDA x : x # id)]]

\* ChildNode.before: node goes right before anchor; no parent, no effect
Before(d, anchor, node) ==
  LET d1  == Detach(d, node)
      par == ParentOf(d1, anchor)
  IN IF par = NoNode THEN d
     ELSE LET kids == d1[par].childNodes
              at   == CHOOSE j \in DOMAIN kids : kids[j] = anchor
          IN [d1 EXCEPT ![par].childNodes =
                SubSeq(kids, 1, at - 1) \o <<node>> \o SubSeq(kids, at, Len(kids))]

\* Node.appendChild
appendChild(d, parent, node) ==
  LET d1 == Detach(d, node) IN [d1 EXCEPT ![parent].childNodes = Append(d1[parent].childNodes, node)]

\* EventTarget.addEventListener: the same listener is not added twice
addEventListener(d, el, eventName, handler) ==
  IF \E j \in DOMAIN d[el].listeners : d[el].listeners[j] = <<eventName, handler>>
  THEN d
  ELSE [d EXCEPT ![el].listeners = Append(d[el].listeners, <<eventName, handler>>)]

\* host primitive append(anchor, node) of ripple/internal/client
append(st, anchor, node) ==
  [st EXCEPT !.dom = Before(st.dom, anchor, node),
             !.calls = Append(st.calls, <<"append", anchor, node>>)]

\* host primitive set_attribute(element, key, value) of ripple/internal/client
set_attribute(st, el, key, value) ==
  [st EXCEPT !.dom = [st.dom EXCEPT ![el].attrs = ObjSet(st.dom[el].attrs, key, value)],
             !.calls = Append(st.calls, <<"set_attribute", el, 0>>)]

\* block.s of a block: isNull for `s === null`, NoNode for a null start/end
NullSpan == [isNull |-> TRUE, start |-> NoNode, end |-> NoNode]
Span(start, end) == [isNull |-> FALSE, start |-> start, end |-> end]

\* an assign_nodes that overwrites the span on every call
assign_nodes_lastWins(st, start, end) ==
  [st EXCEPT !.blocks[st.active] = Span(start, end),
             !.calls = Append(st.calls, <<"assign_nodes", start, end>>)]

assign_nodes(st, start, end) ==
  LET s  == st.blocks[st.active]
      s1 == [st EXCEPT !.calls = Append(st.calls, <<"assign_nodes", start, end>>)]
  IN IF s.isNull THEN [s1 EXCEPT !.blocks[st.active] = Span(start, end)]
     ELSE IF s.start = NoNode THEN [s1 EXCEPT !.blocks[st.active] = Span(start, end)]
     ELSE s1

create_anchor(st) == AddNode(st, TextNode(<<>>, TRUE))

create_text(st, value) == AddNode(st, TextNode(value, FALSE))

SVG_TAGS == {<<"s","v","g">>, <<"c","i","r","c","l","e">>, <<"p","a","t","h">>, <<"r","e","c","t">>, <<"g">>, <<"l","i","n","e">>, <<"p","o","l","y","l","i","n","e">>, <<"p","o","l","y","g","o","n">>, <<"e","l","l","i","p","s","e">>, <<"t","e","x","t">>, <<"t","s","p","a","n">>, <<"d","e","f","s">>, <<"u","s","e">>, <<"i","m","a","g","e">>}
MATHML_TAGS == {<<"m","a","t","h">>, <<"m","i">>, <<"m","o">>, <<"m","n">>, <<"m","r","o","w">>, <<"m","s","u","p">>, <<"m","s","u","b">>, <<"m","f","r","a","c">>, <<"m","s","q","r","t">>}

createElement(st, tag) ==
  IF tag \in SVG_TAGS THEN AddNode(st, ElementNode(tag, "http://www.w3.org/2000/svg"))
  ELSE IF tag \in MATHML_TAGS
       THEN AddNode(st, ElementNode(tag, "http://www.w3.org/1998/Math/MathML"))
       ELSE AddNode(st, ElementNode(tag, "html"))

Digit == <<"0","1","2","3","4","5","6","7","8","9">>
RECURSIVE NumberToString(_)
\* String(n) of a natural number
NumberToString(n) ==
  IF n < 10 THEN <<Digit[n + 1]>> ELSE Append(NumberToString(n \div 10), Digit[(n % 10) + 1])

\* String(child) of a string or a number
String(child) == IF child.k = "string" THEN child.s ELSE NumberToString(child.n)

\* the truthiness test of `rawProps.children ? ... : ...`
Truthy(v) ==
  CASE v.k = "null" -> FALSE
    [] v.k = "undefined" -> FALSE
    [] v.k = "boolean" -> v.n = 1
    [] v.k = "number" -> v.n # 0
    [] v.k = "string" -> v.s # <<>>
    [] OTHER -> TRUE

----------------------------------------------------------------------------
(* The closures.  A closure is a function value: f names its code, and s, c *)
(* and p hold what it captured (tag, type or flattened children, props).    *)

\* the exported function Fragment itself, as a value (its length is 1)
FragmentFn == Val("function", "Fragment", <<>>, 0, <<>>, <<>>)

\* Function.prototype.length of the functions of this module
FnLength(fn) ==
  CASE fn.f = "Fragment" -> 1
    [] fn.f = "elementWrapper" -> 2
    [] fn.f \in {"componentWrapper", "fragmentWrapper", "children"} -> 3

\* Fragment(props): the fragmentWrapper closure over props
Fragment(p) == Val("function", "fragmentWrapper", <<>>, 0, <<>>, p)

\* a jsx that takes every non-function type for a tag name
jsx_noTypeCheck(ty, p) ==
  IF ty.k = "function"
  THEN [thrown |-> FALSE, value |-> Val("function", "componentWrapper", <<>>, 0, <<ty>>, p)]
  ELSE [thrown |-> FALSE, value |-> Val("function", "elementWrapper", ty.s, 0, <<>>, p)]

\* jsx(type, props): the closure returned, or the Error thrown
jsx(ty, p) ==
  IF ty.k = "function"
  THEN [thrown |-> FALSE, value |-> Val("function", "componentWrapper", <<>>, 0, <<ty>>, p)]
  ELSE IF ty.k = "string"
       THEN [thrown |-> FALSE, value |-> Val("function", "elementWrapper", ty.s, 0, <<>>, p)]
       ELSE [thrown |-> TRUE, value |-> Undefined]

jsxs(ty, p) == jsx(ty, p)

jsxDEV(ty, p) == jsx(ty, p)

RECURSIVE Call(_, _, _, _, _)
RECURSIVE renderLoop(_, _, _, _, _, _)

\* the for-of loop of renderChildren and the assign_nodes that follows it
renderLoop(st, anchor, children, i, firstNode, lastNode) ==
  IF i > Len(children)
  THEN IF firstNode # NoNode /\ lastNode # NoNode
       THEN assign_nodes(st, firstNode, lastNode)
       ELSE st
  ELSE LET child == children[i] IN
       CASE child.k = "string" \/ child.k = "number" ->
              LET s1       == create_text(st, String(child))
                  textNode == LastId(s1)
                  s2       == append(s1, anchor, textNode)
              IN renderLoop(s2, anchor, children, i + 1,
                            IF firstNode = NoNode THEN textNode ELSE firstNode, textNode)
         [] child.k = "function" ->
              LET s1          == create_anchor(st)
                  childAnchor == LastId(s1)
                  s2          == append(s1, anchor, childAnchor)
                  s3          == Call(s2, child, childAnchor, <<>>, s2.active)
              IN renderLoop(s3, anchor, children, i + 1,
                            IF firstNode = NoNode THEN childAnchor ELSE firstNode, childAnchor)
         [] child.k = "node" ->
              LET s1 == append(st, anchor, child.n)
              IN renderLoop(s1, anchor, children, i + 1,
                            IF firstNode = NoNode THEN child.n ELSE firstNode, child.n)
         [] OTHER -> renderLoop(st, anchor, children, i + 1, firstNode, lastNode)

renderChildren(st, anchor, children) == renderLoop(st, anchor, children, 1, NoNode, NoNode)

\* a children closure that reports its span to the block it was handed
children_toPassedBlock(st, flattenedChildren, anchor, p, block) ==
  [renderChildren([st EXCEPT !.active = block], anchor, flattenedChildren)
     EXCEPT !.active = st.active]

\* the closure `children(anchor, props, block)` of createChildrenComponent
children_(st, flattenedChildren, anchor, p, block) ==
  renderChildren(st, anchor, flattenedChildren)

\* a fragmentWrapper that unwraps its children itself and skips flattening
fragmentWrapper_noFlatten(st, p, anchor, wrapperProps, block) ==
  LET rawProps == ObjSpread(p, wrapperProps)
      ch       == ObjGet(rawProps, k_children)
  IN renderChildren(st, anchor, IF IsArray(ch) THEN ch.c ELSE <<ch>>)

fragmentWrapper(st, p, anchor, wrapperProps, block) ==
  LET rawProps == ObjSpread(p, wrapperProps)
      ch       == ObjGet(rawProps, k_children)
      children == IF Truthy(ch)
                  THEN createChildrenComponent(IF IsArray(ch) THEN ch ELSE Arr(<<ch>>))
                  ELSE createChildrenComponent(Arr(<<>>))
  IN Call(st, children, anchor, <<>>, block)

componentWrapper(st, ty, p, anchor, wrapperProps, block) ==
  LET rawProps == ObjSpread(p, wrapperProps)
      ch       == ObjGet(rawProps, k_children)
      processedProps ==
        ObjSet(rawProps, k_children,
               IF Truthy(ch)
               THEN createChildrenComponent(IF IsArray(ch) THEN ch ELSE Arr(<<ch>>))
               ELSE createChildrenComponent(Arr(<<>>)))
      isFragment == FnLength(ty) = 1
  IN IF isFragment
     THEN Call(st, Fragment(processedProps), anchor, processedProps, block)
     ELSE Call(st, ty, anchor, processedProps, block)

RECURSIVE setAttributes(_, _, _, _)
\* the loop over Object.entries(attributes)
setAttributes(st, element, attributes, i) ==
  IF i > Len(attributes) THEN st
  ELSE LET key   == attributes[i][1]
           value == attributes[i][2]
       IN IF value.k # "null" /\ value.k # "undefined"
          THEN setAttributes(set_attribute(st, element, key, value), element, attributes, i + 1)
          ELSE setAttributes(st, element, attributes, i + 1)

RECURSIVE addListeners(_, _, _, _)
\* the loop over Object.entries(events)
addListeners(st, element, events, i) ==
  IF i > Len(events) THEN st
  ELSE addListeners([st EXCEPT !.dom = addEventListener(st.dom, element, events[i][1], events[i][2])],
                    element, events, i + 1)

elementWrapper(st, tag, p, anchor, wrapperProps) ==
  LET s1          == createElement(st, tag)
      element     == LastId(s1)
      mergedProps == ObjSpread(p, wrapperProps)
      pp          == processProps(mergedProps)
      s2          == setAttributes(s1, element, pp.attributes, 1)
      s3          == addListeners(s2, element, pp.events, 1)
      s4          == create_anchor(s3)
      childAnchor == LastId(s4)
      s5          == [s4 EXCEPT !.dom = appendChild(s4.dom, element, childAnchor)]
      s6          == Call(s5, pp.children, childAnchor, <<>>, s5.active)
      s7          == append(s6, anchor, element)
  IN assign_nodes(s7, element, element)

\* fn(anchor, wrapperProps, block) for a closure of this module
Call(st, fn, anchor, wrapperProps, block) ==
  CASE fn.f = "elementWrapper"   -> elementWrapper(st, fn.s, fn.p, anchor, wrapperProps)
    [] fn.f = "componentWrapper" -> componentWrapper(st, fn.c[1], fn.p, anchor, wrapperProps, block)
    [] fn.f = "fragmentWrapper"  -> fragmentWrapper(st, fn.p, anchor, wrapperProps, block)
    [] fn.f = "children"         -> children_(st, fn.c, anchor, wrapperProps, block)

----------------------------------------------------------------------------
(* Bounds and inputs *)

\* largest children value (arrays, closures and scalars counted) fed to flattenChildren
MaxFlatSize == 4
\* largest children value handed to a rendered descriptor
MaxSize == 4
\* most entries of a props object handed to processProps
MaxProps == 2
\* most closure invocations in one render pass
MaxInvokes == 3

\* the host's container element, the anchor inside it, and a detached node
RootId == 1
AnchorId == 2
LooseId == 3
BlockIds == {1, 2}

t_div    == <<"d","i","v">>
t_span   == <<"s","p","a","n">>
t_button == <<"b","u","t","t","o","n">>
k_onClick       == <<"o","n","C","l","i","c","k">>
k_onDoubleClick == <<"o","n","D","o","u","b","l","e","C","l","i","c","k">>
k_onCLICK       == <<"o","n","C","L","I","C","K">>
k_onclick       == <<"o","n","c","l","i","c","k">>
k_once          == <<"o","n","c","e">>
k_id            == <<"i","d">>
k_class         == <<"c","l","a","s","s">>
k_dataId        == <<"d","a","t","a","-","i","d">>

InitDom ==
  << [ElementNode(<<"#","r","o","o","t">>, "html") EXCEPT !.childNodes = <<AnchorId>>],
     TextNode(<<>>, FALSE),
     ElementNode(<<"b">>, "html") >>

\* the element descriptor jsx('span', p) as the compiler nests it in children
SpanOf(p) == jsx(Str(t_span), p).value

RECURSIVE GenTable(_, _, _, _)
\* children values by size, built from the smallest up: tab[n + 1].vals are
\* the values of size n and tab[n + 1].lists the item lists of total size n
GenTable(tab, leaves, withElements, N) ==
  LET n == Len(tab) IN
  IF n > N THEN tab
  ELSE LET v == IF n = 0 THEN {}
                ELSE (IF n = 1
                      THEN leaves \cup (IF withElements THEN {SpanOf(<<>>)} ELSE {})
                      ELSE {})
                     \cup {Arr(c) : c \in tab[n].lists}
                     \cup (IF withElements
                           THEN {SpanOf(<< <<k_children, c>> >>) : c \in tab[n].vals}
                           ELSE {})
           l == IF n = 0 THEN {<<>>}
                ELSE IF n = N THEN {}
                ELSE UNION {{<<x>> \o r : x \in (IF j = n THEN v ELSE tab[j + 1].vals),
                                          r \in tab[n - j + 1].lists} : j \in 1..n}
       IN GenTable(Append(tab, [vals |-> v, lists |-> l]), leaves, withElements, N)

\* the children values of size 1..N over the given scalars
Gen(leaves, withElements, N) ==
  LET tab == GenTable(<<>>, leaves, withElements, N) IN UNION {tab[n + 1].vals : n \in 1..N}

FlatLeaves == {Null, Undefined, False, True, Str(<<"a">>), Num(0)}
FlatInputs == Gen(FlatLeaves, FALSE, MaxFlatSize)

RenderLeaves == {Str(<<"a">>), Num(0), NodeRef(LooseId), True}
ChildrenInputs == Gen(RenderLeaves, TRUE, MaxSize)

\* props of a rendered descriptor: none, or a children value
RenderProps == {<<>>} \cup {<< <<k_children, c>> >> : c \in ChildrenInputs}

\* the `type` arguments tried: two tag names, a function, and three invalid ones
TypeInputs == {Str(t_div), Str(<<"s","v","g">>), FragmentFn, Num(42), Null, Arr(<<>>)}

h1 == Handler(<<"h","1">>)
h2 == Handler(<<"h","2">>)

\* the props entries tried on processProps
EntryInputs ==
  { <<k_className, Str(<<"x">>)>>, <<k_htmlFor, Str(<<"x">>)>>, <<k_tabIndex, Num(0)>>,
    <<k_readOnly, True>>, <<k_autoComplete, Str(<<"x">>)>>, <<k_autoFocus, True>>,
    <<k_contentEditable, Str(<<"x">>)>>, <<k_noValidate, True>>,
    <<k_class, Str(<<"y">>)>>, <<k_id, Null>>, <<k_dataId, Str(<<"x">>)>>,
    <<k_onClick, h1>>, <<k_onClick, Str(<<"x">>)>>, <<k_onDoubleClick, h1>>,
    <<k_onCLICK, h2>>, <<k_onclick, h1>>, <<k_once, h1>>,
    <<k_children, Str(<<"a">>)>> }

RECURSIVE ObjectsUpTo(_)
\* objects of at most n entries, in every insertion order
ObjectsUpTo(n) ==
  IF n = 0 THEN {<<>>}
  ELSE LET smaller == ObjectsUpTo(n - 1)
       IN smaller \cup {Append(o, e) : o \in {x \in smaller : Len(x) = n - 1},
                                       e \in EntryInputs}

PropsInputs == {o \in ObjectsUpTo(MaxProps) : \A i, j \in DOMAIN o : o[i][1] = o[j][1] => i = j}

WrapperPropsInputs == {<<>>, << <<k_onClick, h2>> >>}

\* closures invoked one after another against the same active block
PassInputs ==
  { jsx(Str(t_div), <<>>).value,
    jsx(Str(t_div), << <<k_children, Str(<<"a">>)>> >>).value,
    Fragment(<<>>),
    Fragment(<< <<k_children, Arr(<<Str(<<"a">>), SpanOf(<<>>)>>)>> >>),
    jsx(FragmentFn, << <<k_children, NodeRef(LooseId)>> >>).value,
    createChildrenComponent(Arr(<<Num(1), Str(<<"a">>)>>)) }

EmptySpan == Span(NoNode, NoNode)

\* the host's two blocks: the first with span s, the second with none
BlocksWith(s) == (1 :> s) @@ (2 :> NullSpan)
NoOutput == [attributes |-> <<>>, events |-> <<>>, children |-> Undefined]

----------------------------------------------------------------------------
(* The host: it holds the document and the blocks, calls the constructors   *)
(* and later invokes the closures they returned at its anchor.              *)

\* what the host hands to a closure, and what it gets back
RenderState == [dom |-> dom, blocks |-> blocks, active |-> active_block, calls |-> <<>>]

\* the host invokes fn(anchor, wp, b) and the invocation runs to completion
Invoked(fn, wp, b) ==
  \E r \in {Call(RenderState, fn, AnchorId, wp, b)} :
     /\ dom' = r.dom
     /\ blocks' = r.blocks
     /\ calls' = r.calls
     /\ blockArg' = b
     /\ wprops' = wp
     /\ invokes' = invokes + 1
     /\ UNCHANGED active_block

Idle ==
  /\ type = Undefined /\ props = <<>> /\ closure = Undefined
  /\ blockArg = 1 /\ wprops = <<>>
  /\ dom = InitDom /\ active_block = 1
  /\ calls = <<>> /\ invokes = 0

----------------------------------------------------------------------------
(* FlattenChildren alone *)

InitFlat ==
  /\ pc = "start" /\ input \in FlatInputs /\ output = <<>>
  /\ blocks = BlocksWith(NullSpan)
  /\ Idle

Flatten ==
  /\ pc = "start"
  /\ output' = flattenChildren(input)
  /\ pc' = "flattened"
  /\ UNCHANGED <<input, type, props, closure, blockArg, wprops, dom, blocks, active_block, calls, invokes>>

NextFlat == Flatten

SpecFlat == InitFlat /\ [][NextFlat]_vars

----------------------------------------------------------------------------
(* ProcessProps and the element wrapper *)

InitProps ==
  /\ pc = "start" /\ input \in PropsInputs /\ output = NoOutput
  /\ blocks = BlocksWith(NullSpan)
  /\ Idle

Classify ==
  /\ pc = "start"
  /\ output' = processProps(input)
  /\ pc' = "processed"
  /\ UNCHANGED <<input, type, props, closure, blockArg, wprops, dom, blocks, active_block, calls, invokes>>

MakeButton ==
  /\ pc = "processed"
  /\ type' = Str(t_button)
  /\ props' = input
  /\ closure' = jsx(Str(t_button), input).value
  /\ pc' = "made"
  /\ UNCHANGED <<input, output, blockArg, wprops, dom, blocks, active_block, calls, invokes>>

InvokeButton ==
  /\ pc = "made"
  /\ \E wp \in WrapperPropsInputs : Invoked(closure, wp, active_block)
  /\ pc' = "rendered"
  /\ UNCHANGED <<input, output, type, props, closure>>

NextProps == Classify \/ MakeButton \/ InvokeButton

SpecProps == InitProps /\ [][NextProps]_vars

----------------------------------------------------------------------------
(* One descriptor built and rendered *)

Init ==
  /\ pc = "idle" /\ input = <<>> /\ output = <<>>
  /\ blocks \in {BlocksWith(s) : s \in {NullSpan, EmptySpan}}
  /\ Idle

\* the compiler's call of an entry point returned r
Constructed(ty, p, r) ==
  /\ type' = ty
  /\ props' = p
  /\ closure' = r.value
  /\ pc' = IF r.thrown THEN "thrown" ELSE "made"
  /\ UNCHANGED <<input, output, blockArg, wprops, dom, blocks, active_block, calls, invokes>>

CallJsx == pc = "idle" /\ \E ty \in TypeInputs, p \in RenderProps : Constructed(ty, p, jsx(ty, p))

CallJsxs == pc = "idle" /\ \E ty \in TypeInputs, p \in RenderProps : Constructed(ty, p, jsxs(ty, p))

CallJsxDEV == pc = "idle" /\ \E ty \in TypeInputs, p \in RenderProps : Constructed(ty, p, jsxDEV(ty, p))

CallFragment ==
  /\ pc = "idle"
  /\ \E p \in RenderProps : Constructed(FragmentFn, p, [thrown |-> FALSE, value |-> Fragment(p)])

Invoke ==
  /\ pc = "made"
  /\ \E b \in BlockIds : Invoked(closure, <<>>, b)
  /\ pc' = "rendered"
  /\ UNCHANGED <<input, output, type, props, closure>>

Next == CallJsx \/ CallJsxs \/ CallJsxDEV \/ CallFragment \/ Invoke

Spec == Init /\ [][Next]_vars

----------------------------------------------------------------------------
(* Several invocations against the same active block *)

InitPass ==
  /\ pc = "idle" /\ input = <<>> /\ output = <<>>
  /\ blocks \in {BlocksWith(s) : s \in {NullSpan, EmptySpan}}
  /\ Idle

InvokeNext ==
  /\ invokes < MaxInvokes
  /\ \E fn \in PassInputs, b \in BlockIds :
       /\ closure' = fn
       /\ Invoked(fn, <<>>, b)
  /\ pc' = "rendered"
  /\ UNCHANGED <<input, output, type, props>>

\* the host starts a new render pass: it clears the active block's span
HostReset ==
  /\ pc = "rendered"
  /\ \E s \in {NullSpan, EmptySpan} : blocks' = [blocks EXCEPT ![active_block] = s]
  /\ pc' = "reset"
  /\ UNCHANGED <<input, output, type, props, closure, blockArg, wprops, dom, active_block, calls, invokes>>

NextPass == InvokeNext \/ HostReset

SpecPass == InitPass /\ [][NextPass]_vars

----------------------------------------------------------------------------
(* Properties of flattenChildren (SpecFlat) *)

RECURSIVE LeavesOf(_)
RECURSIVE LeavesOfItems(_)
\* every non-array value of a children value, depth first, left to right
LeavesOf(v) == IF IsArray(v) THEN LeavesOfItems(v.c) ELSE <<v>>
LeavesOfItems(items) ==
  IF items = <<>> THEN <<>> ELSE LeavesOf(Head(items)) \o LeavesOfItems(Tail(items))

\* the reference flattening: the leaves in order, without null, undefined and false
ReferenceFlattening(v) ==
  SelectSeq(LeavesOf(v), LAMBDA x : x \notin {Null, Undefined, False})

\* how often x occurs in the sequence s
Count(s, x) == Cardinality({i \in DOMAIN s : s[i] = x})

C8_Original ==
  pc = "flattened" /\ IsArray(input) => Count(output, True) = 0

\* C8 amended: flattenChildren never drops `true`; every `true` of an array,
\* at every nesting level, is in the flattened sequence, as a sole top-level
\* `true` is.
C8_TrueIsKept ==
  pc = "flattened" => Count(output, True) = Count(LeavesOf(input), True)

\* C8 witness: an array with a nested `true` was flattened and `true` is in the result
C8_Witness ==
  /\ pc = "flattened"
  /\ input = Arr(<<Arr(<<True>>), False>>)
  /\ output = <<True>>

----------------------------------------------------------------------------
(* Properties of processProps and of the listeners the element wrapper adds *)
(* (SpecProps)                                                              *)

\* the key without its first two characters, all of it lower-cased
RestLowered(key) == [i \in 1..(Len(key) - 2) |-> LowerChar(key[i + 2])]

\* the key without its first two characters, only the next one lower-cased
RestFirstLowered(key) ==
  [i \in 1..(Len(key) - 2) |-> IF i = 1 THEN LowerChar(key[3]) ELSE key[i + 2]]

Callable(v) == v.k = "function"

\* the entries of o other than children
OtherEntries(o) == {i \in DOMAIN o : o[i][1] # k_children}

\* the entries whose key matches /^on[A-Z]/ and whose value is callable
CamelHandlers(o) == {i \in OtherEntries(o) : MatchesOnUpper(o[i][1]) /\ Callable(o[i][2])}

\* the entries whose key starts with `on` and whose value is callable
OnHandlers(o) == {i \in OtherEntries(o) : startsWithOn(o[i][1]) /\ Callable(o[i][2])}

\* the value of the last entry of o among `among` whose lower-cased rest is name
LastHandler(o, among, name) ==
  o[CHOOSE i \in among :
      /\ RestLowered(o[i][1]) = name
      /\ \A j \in among : RestLowered(o[j][1]) = name => j <= i][2]

Names(o) == {o[j][1] : j \in DOMAIN o}

\* the button the wrapper created: the node right before the host's anchor
ElementAtAnchor ==
  LET kids == dom[RootId].childNodes
      at   == CHOOSE j \in DOMAIN kids : kids[j] = AnchorId
  IN IF at > 1 THEN kids[at - 1] ELSE NoNode

ListenersAtAnchor == {dom[ElementAtAnchor].listeners[j] : j \in DOMAIN dom[ElementAtAnchor].listeners}

\* C3 as stated: the event name is the key without `on`, its first remaining
\* character lower-cased; the handler is recorded and attached under that name
C3_Original ==
  /\ pc \in {"processed", "made", "rendered"} =>
       \A i \in CamelHandlers(input) :
         ObjGet(output.events, RestFirstLowered(input[i][1])) = input[i][2]
  /\ pc = "rendered" =>
       LET merged == ObjSpread(input, wprops) IN
       \A i \in CamelHandlers(merged) :
         <<RestFirstLowered(merged[i][1]), merged[i][2]>> \in ListenersAtAnchor

\* C3 amended: the event name is the key without `on`, all of the remainder
\* lower-cased (onDoubleClick -> doubleclick); the handler recorded under a name
\* is that of the last callable on-prefixed key with that name, and the element
\* wrapper attaches exactly that handler, once, under that name.
C3_EventNameIsLowerCasedRest ==
  /\ pc \in {"processed", "made", "rendered"} =>
       \A i \in CamelHandlers(input) :
         LET name == RestLowered(input[i][1]) IN
         /\ ObjHas(output.events, name)
         /\ ObjGet(output.events, name) = LastHandler(input, OnHandlers(input), name)
  /\ pc = "rendered" =>
       LET merged == ObjSpread(input, wprops) IN
       \A i \in CamelHandlers(merged) :
         LET name == RestLowered(merged[i][1]) IN
         {l \in ListenersAtAnchor : l[1] = name}
           = {<<name, LastHandler(merged, OnHandlers(merged), name)>>}

\* C3 witness: onDoubleClick was rendered and its handler listens to doubleclick
C3_Witness ==
  /\ pc = "rendered"
  /\ ObjGet(ObjSpread(input, wprops), k_onDoubleClick) = h1
  /\ <<<<"d","o","u","b","l","e","c","l","i","c","k">>, h1>> \in ListenersAtAnchor

\* the attribute name table of the claim
HtmlNameTable ==
  { <<<<"c","l","a","s","s","N","a","m","e">>, <<"c","l","a","s","s">>>>,
    <<<<"h","t","m","l","F","o","r">>, <<"f","o","r">>>>,
    <<<<"t","a","b","I","n","d","e","x">>, <<"t","a","b","i","n","d","e","x">>>>,
    <<<<"r","e","a","d","O","n","l","y">>, <<"r","e","a","d","o","n","l","y">>>>,
    <<<<"a","u","t","o","C","o","m","p","l","e","t","e">>, <<"a","u","t","o","c","o","m","p","l","e","t","e">>>>,
    <<<<"a","u","t","o","F","o","c","u","s">>, <<"a","u","t","o","f","o","c","u","s">>>>,
    <<<<"c","o","n","t","e","n","t","E","d","i","t","a","b","l","e">>, <<"c","o","n","t","e","n","t","e","d","i","t","a","b","l","e">>>>,
    <<<<"n","o","V","a","l","i","d","a","t","e">>, <<"n","o","v","a","l","i","d","a","t","e">>>> }

InTable(key) == \E e \in HtmlNameTable : e[1] = key

\* the attribute name a key that is not an event is expected under
ExpectedAttribute(key) ==
  IF InTable(key) THEN (CHOOSE e \in HtmlNameTable : e[1] = key)[2]
  ELSE IF MatchesOnUpper(key) THEN <<"o", "n">> \o RestFirstLowered(key)
  ELSE key

\* C4 as stated: a key is an event only if it matches /^on[A-Z]/ and its value
\* is callable; every other key is an attribute, table keys under their mapped
\* name, the rest under their own name
C4_Original ==
  pc \in {"processed", "made", "rendered"} =>
    LET ev == CamelHandlers(input) IN
    /\ Names(output.events) = {RestLowered(input[i][1]) : i \in ev}
    /\ Names(output.attributes) = {ExpectedAttribute(input[i][1]) : i \in OtherEntries(input) \ ev}

\* C4 amended: a key is an event if and only if it starts with `on` (whatever
\* follows) and its value is callable; every other key but children is an
\* attribute whatever its value, table keys under their mapped HTML name, keys
\* not in the table and not matching /^on[A-Z]/ under their own name.
C4_ClassifiedByOnPrefixAndCallable ==
  pc \in {"processed", "made", "rendered"} =>
    LET ev == OnHandlers(input) IN
    /\ Names(output.events) = {RestLowered(input[i][1]) : i \in ev}
    /\ Names(output.attributes) = {ExpectedAttribute(input[i][1]) : i \in OtherEntries(input) \ ev}
    /\ \A i \in OtherEntries(input) \ ev :
         ObjHas(output.attributes, ExpectedAttribute(input[i][1]))

\* C4 witness: a lower-case onclick handler and className were classified
C4_Witness ==
  /\ pc = "processed"
  /\ input = << <<k_onclick, h1>>, <<k_className, Str(<<"x">>)>> >>
  /\ Names(output.events) = {<<"c","l","i","c","k">>}
  /\ Names(output.attributes) = {<<"c","l","a","s","s">>}

----------------------------------------------------------------------------
(* Properties of one rendered descriptor (Spec) *)

\* the nodes in the host's container before the host's anchor
InsertedAtAnchor ==
  LET kids == dom[RootId].childNodes
      at   == CHOOSE j \in DOMAIN kids : kids[j] = AnchorId
  IN SubSeq(kids, 1, at - 1)

Unset(s) == s.isNull \/ s.start = NoNode

\* the assign_nodes calls among the recorded calls, in order
AssignCalls(c) == SelectSeq(c, LAMBDA e : e[1] = "assign_nodes")

\* C1 as stated: an element wrapper invoked while the active block's span is
\* unset leaves the span at (element, element), whatever children it rendered
C1_Original ==
  pc = "rendered" /\ closure.f = "elementWrapper" =>
    blocks[active_block] = Span(ElementAtAnchor, ElementAtAnchor)

\* the children of the rendered Fragment are element descriptors and text only
OnlyElementsAndText(flat) ==
  \A i \in DOMAIN flat :
    flat[i].k \in {"string", "number"} \/ flat[i].f = "elementWrapper"

\* the node is what the child asks for: a text node with its text, or its element
NodeIsChild(id, child) ==
  IF child.k \in {"string", "number"}
  THEN dom[id].nodeType = 3 /\ dom[id].data = String(child) /\ ~dom[id].t
  ELSE dom[id].nodeType = 1 /\ dom[id].tag = child.s

\* an empty anchor text node made by create_anchor
IsAnchorNode(id) == dom[id].nodeType = 3 /\ dom[id].t /\ dom[id].data = <<>>

\* C2 as stated: the nodes a Fragment inserts at the anchor are exactly the
\* nodes of its k children, in flattened child order, and no other node
C2_Original ==
  pc = "rendered" /\ closure.f = "fragmentWrapper" /\ IsArray(ObjGet(props, k_children)) =>
    LET flat == ReferenceFlattening(ObjGet(props, k_children))
        ins  == InsertedAtAnchor
    IN OnlyElementsAndText(flat) =>
         /\ Len(ins) = Len(flat)
         /\ \A i \in DOMAIN flat : NodeIsChild(ins[i], flat[i])

\* C2 amended: a Fragment inserts, directly at the anchor and with no wrapping
\* element, one text node per text child and, per element descriptor, the
\* element followed by the empty anchor text node created for it; without
\* those anchors the inserted nodes are exactly the k children's nodes in
\* flattened child order.
C2_FragmentInsertsChildrenAndAnchors ==
  pc = "rendered" /\ closure.f = "fragmentWrapper" /\ IsArray(ObjGet(props, k_children)) =>
    LET flat  == ReferenceFlattening(ObjGet(props, k_children))
        ins   == InsertedAtAnchor
        nodes == SelectSeq(ins, LAMBDA id : ~IsAnchorNode(id))
        elems == {i \in DOMAIN flat : flat[i].f = "elementWrapper"}
    IN OnlyElementsAndText(flat) =>
         /\ Len(nodes) = Len(flat)
         /\ \A i \in DOMAIN flat : NodeIsChild(nodes[i], flat[i])
         /\ Len(ins) = Len(flat) + Cardinality(elems)
         /\ \A j \in DOMAIN ins :
              dom[ins[j]].nodeType = 1 => j < Len(ins) /\ IsAnchorNode(ins[j + 1])
         /\ dom[RootId].childNodes = ins \o <<AnchorId>>

\* C2 witness: Fragment({children: [jsx('span', {}), 'a']}) was rendered
C2_Witness ==
  /\ pc = "rendered" /\ closure.f = "fragmentWrapper"
  /\ ObjGet(props, k_children) = Arr(<<SpanOf(<<>>), Str(<<"a">>)>>)
  /\ Len(InsertedAtAnchor) = 3

\* C5: jsx, jsxs and jsxDEV throw for a type that is neither a string nor a
\* function and return no closure; for a string or a function they return a
\* closure; either way no node is created or inserted, no host primitive is
\* called and no block is touched.
C5_InvalidTypeThrowsBeforeAnyDomWork ==
  [][pc = "idle" /\ pc' # "idle" =>
       /\ closure'.f # "fragmentWrapper" =>
            ((type'.k \notin {"string", "function"}) <=> (pc' = "thrown"))
       /\ pc' = "thrown" => closure' = Undefined
       /\ pc' # "thrown" => pc' = "made" /\ closure'.k = "function"
       /\ dom' = dom /\ blocks' = blocks /\ calls' = calls
       /\ active_block' = active_block]_vars

\* C5 witness: jsx(42, props) threw and the document is as it was
C5_Witness ==
  /\ pc = "thrown" /\ type = Num(42) /\ closure = Undefined
  /\ dom = InitDom /\ calls = <<>>

\* kind, tag, text and anchor mark of the nodes ids of the document d
Describe(d, ids) ==
  [i \in DOMAIN ids |-> [nodeType |-> d[ids[i]].nodeType, tag |-> d[ids[i]].tag,
                         data |-> d[ids[i]].data, t |-> d[ids[i]].t]]

\* what jsx('div', {children: c}) puts inside its element, rendered into a
\* fresh document
InsideElementOf(c) ==
  LET st0  == [dom |-> InitDom, blocks |-> BlocksWith(NullSpan),
               active |-> 1, calls |-> <<>>]
      r    == Call(st0, jsx(Str(t_div), << <<k_children, c>> >>).value, AnchorId, <<>>, 1)
      el   == r.dom[RootId].childNodes[1]
      kids == r.dom[el].childNodes
  IN Describe(r.dom, SubSeq(kids, 1, Len(kids) - 1))

\* C9 as stated: Fragment({children: c}) inserts at its anchor the same nodes
\* that jsx(tag, {children: c}) inserts inside its element
C9_Original ==
  pc = "rendered" /\ closure.f = "fragmentWrapper" /\ ObjHas(props, k_children) =>
    Describe(dom, InsertedAtAnchor) = InsideElementOf(ObjGet(props, k_children))

\* C10: a wrapper invoked with a block other than the active block leaves that
\* block's span as it was, and the span reported first is written to the
\* active block.
C10_SpanWritesGoToActiveBlock ==
  [][pc = "made" /\ pc' = "rendered" /\ blockArg' # active_block =>
       /\ blocks'[blockArg'] = blocks[blockArg']
       /\ AssignCalls(calls') # <<>> =>
            blocks'[active_block] = Span(AssignCalls(calls')[1][2], AssignCalls(calls')[1][3])]_vars

\* C10 witness: a Fragment with children was invoked with the other block; the
\* active block got the span and the passed block none
C10_Witness ==
  /\ pc = "rendered" /\ closure.f = "fragmentWrapper"
  /\ blockArg # active_block
  /\ AssignCalls(calls) # <<>>
  /\ ~Unset(blocks[active_block])
  /\ blocks[blockArg] = NullSpan

----------------------------------------------------------------------------
(* Properties of a render pass of several invocations (SpecPass) *)

\* C7: the first assign_nodes call made while the active block's span is unset
\* (null, or with a null start) sets the span to its (start, end); once the
\* start is set no invocation changes the span.
C7_FirstWriterWins ==
  [][invokes' = invokes + 1 =>
       LET s == blocks[active_block]
           a == AssignCalls(calls')
       IN /\ ~Unset(s) => blocks'[active_block] = s
          /\ Unset(s) /\ a # <<>> => blocks'[active_block] = Span(a[1][2], a[1][3])
          /\ Unset(s) /\ a = <<>> => blocks'[active_block] = s]_vars

\* C7 witness: a later invocation made assign_nodes calls and the span is still
\* the one an earlier invocation set
C7_Witness ==
  /\ pc = "rendered" /\ invokes >= 2
  /\ Len(AssignCalls(calls)) >= 2
  /\ ~Unset(blocks[active_block])
  /\ \A i \in DOMAIN AssignCalls(calls) :
       blocks[active_block] # Span(AssignCalls(calls)[i][2], AssignCalls(calls)[i][3])

====
